---------------------------- MODULE Spec2Model ----------------------------
(***************************************************************************)
(* flashcard-server: the bootstrap of src/main.rs (configuration, pools,   *)
(* the shared ID factory, the two managers behind their mutexes, the route *)
(* table in registration order) together with the dispatch behaviour of    *)
(* the webe_web / webe_auth / webe_id crates that main.rs wires up.  The   *)
(* crates' sources are not part of src/; their behaviour follows the       *)
(* written specification (spec.md sections 3-5, 7).                        *)
(***************************************************************************)
EXTENDS Integers, Sequences, FiniteSets, TLC

VARIABLES
    main_pc,     \* position of main() in Startup; 0 once an expect() panicked
    built,       \* names of the startup values constructed so far
    route_map,   \* RouteMap: registrations in add_route order
    server,      \* "none" | "created" | "running" | "stopped"
    stop_cause,  \* why start() returned: "none" | "transport" | "shutdown"
    conn,        \* per connection: the request in flight and its position
    queue,       \* tokio::sync::Mutex waiters of each manager, FIFO
    holder,      \* connection holding each manager's mutex, NoConn if free
    id_holder,   \* connection holding the std::sync::Mutex of the ID factory
    factory,     \* WebeIDFactory state: last_timestamp, sequence
    now,         \* wall clock, milliseconds since the custom epoch
    last_id,     \* the identifier the factory returned most recently
    max_id       \* the largest identifier the factory has returned so far

vars == <<main_pc, built, route_map, server, stop_cause, conn, queue, holder,
          id_holder, factory, now, last_id, max_id>>

-----------------------------------------------------------------------------
(* Bounds of the model *)

MaxTime == 1
MaxSequence == 1
MaxSegs == 3
MaxTable == 2

(* Program constants *)

node_id == 0
NodeSpace == 256

-----------------------------------------------------------------------------
(* Route patterns: spec.md 3 and 4.1 *)

\* The bracketed segment names used by the templates of main.rs.
Bracketed == {"<dump>", "<id>", "<path>", "<wildcard>"}

Literal(text) == [kind |-> "Literal", text |-> text]
Param(name) == [kind |-> "Param", text |-> name]
Wildcard(name) == [kind |-> "Wildcard", text |-> name]

\* Route::new(method, template): the template without its leading slash,
\* split at '/'.
Route(method, uri) == [method |-> method, uri |-> uri]

\* A bracketed segment is a named parameter; as the final segment it is the
\* wildcard that absorbs the remainder of the path.
SegmentMatchers(uri) ==
    [i \in 1..Len(uri) |->
        IF uri[i] \in Bracketed
        THEN IF i = Len(uri) THEN Wildcard(uri[i]) ELSE Param(uri[i])
        ELSE Literal(uri[i])]

NoMatch == [matched |-> FALSE, params |-> <<>>]
Bound(params) == [matched |-> TRUE, params |-> params]

\* Bound parameters: a function from parameter names to the captured
\* segments (a Wildcard's joined remainder is kept as its segment sequence).
NoParams == <<>>

RECURSIVE MatchSegments(_, _, _)
MatchSegments(segs, path, params) ==
    IF segs = <<>>
    THEN IF path = <<>> THEN Bound(params) ELSE NoMatch
    ELSE LET s == Head(segs) IN
         CASE s.kind = "Wildcard" -> Bound((s.text :> path) @@ params)
           [] s.kind = "Param" ->
                IF path # <<>> /\ Head(path) # ""
                THEN MatchSegments(Tail(segs), Tail(path),
                                   (s.text :> <<Head(path)>>) @@ params)
                ELSE NoMatch
           [] OTHER ->
                IF path # <<>> /\ Head(path) = s.text
                THEN MatchSegments(Tail(segs), Tail(path), params)
                ELSE NoMatch

\* match(method, path) of one pattern.
Match(route, method, path) ==
    IF route.method # method
    THEN NoMatch
    ELSE MatchSegments(SegmentMatchers(route.uri), path, NoParams)


-----------------------------------------------------------------------------
(* Responders constructed by main.rs *)

\* A responder value: its variant, the manager it was constructed with
\* ("none" when it holds none), the parameter key it was given and whether
\* the auth gate wraps it.
Responder(kind, name, manager, key) ==
    [kind |-> kind, name |-> name, manager |-> manager, key |-> key,
     secure |-> FALSE]

\* secure::SecureResponder::new(auth_manager.clone(), inner)
SecureResponder(inner) == [inner EXCEPT !.secure = TRUE]

\* Variant: the preflight pattern covers the account paths only.
options_route_account == Route("OPTIONS", <<"account", "<dump>">>)

options_route == Route("OPTIONS", <<"<dump>">>)
options_responder == Responder("options", "Options", "none", "")

create_account_route == Route("POST", <<"account", "create">>)
create_account_responder == Responder("business", "CreateAccount", "auth", "")

verify_account_route == Route("POST", <<"account", "verify">>)
verify_account_responder == Responder("business", "VerifyAccount", "auth", "")

login_route == Route("POST", <<"account", "login">>)
login_responder == Responder("business", "Login", "auth", "")

logout_route == Route("POST", <<"account", "logout">>)
logout_responder == Responder("business", "Logout", "auth", "")

get_decks_route == Route("GET", <<"decks">>)
get_decks_responder ==
    SecureResponder(Responder("business", "Decks", "flash", ""))

get_deck_details_route == Route("GET", <<"deck", "<id>">>)
\* Variant: the deck-detail responder is registered without the auth gate.
get_deck_details_unwrapped ==
    Responder("business", "DeckDetails", "flash", "<id>")

\* Variant: the deck-detail responder is given a key its route never binds.
get_deck_details_wrong_key ==
    SecureResponder(Responder("business", "DeckDetails", "flash", "<deck>"))

get_deck_details_responder ==
    SecureResponder(Responder("business", "DeckDetails", "flash", "<id>"))

create_deck_route == Route("POST", <<"deck", "create">>)
create_deck_responder ==
    SecureResponder(Responder("business", "CreateDeck", "flash", ""))

rename_deck_route == Route("POST", <<"deck", "rename">>)
rename_deck_responder ==
    SecureResponder(Responder("business", "UpdateDeck", "flash", ""))

delete_deck_route == Route("POST", <<"deck", "delete">>)
delete_deck_responder ==
    SecureResponder(Responder("business", "DeleteDeck", "flash", ""))

create_card_route == Route("POST", <<"card", "create">>)
create_card_responder ==
    SecureResponder(Responder("business", "CreateCard", "flash", ""))

update_card_route == Route("POST", <<"card", "update">>)
update_card_responder ==
    SecureResponder(Responder("business", "UpdateCard", "flash", ""))

update_card_position_route == Route("POST", <<"card", "updatepos">>)
update_card_position_responder ==
    SecureResponder(Responder("business", "UpdateCardPosition", "flash", ""))

delete_card_route == Route("POST", <<"card", "delete">>)
delete_card_responder ==
    SecureResponder(Responder("business", "DeleteCard", "flash", ""))

update_score_route == Route("POST", <<"card", "score">>)
update_score_responder ==
    SecureResponder(Responder("business", "UpdateScore", "flash", ""))

get_deck_scores_route == Route("GET", <<"deck", "scores", "<id>">>)
get_deck_scores_responder ==
    SecureResponder(Responder("business", "DeckScores", "flash", "<id>"))

file_route == Route("GET", <<"app", "<path>">>)
file_responder == Responder("file", "File", "none", "<path>")

\* Variant: the fallback route is the root path alone.
app_route_root == Route("GET", <<>>)

app_route == Route("GET", <<"<wildcard>">>)
app_responder == Responder("spa", "SPA", "none", "")

-----------------------------------------------------------------------------
(* Route table: spec.md 4.2 *)

\* RouteMap::add_route appends the binding to the ordered list.
add_route(map, route, responder) ==
    Append(map, [route |-> route, responder |-> responder])

NotFound == [index |-> 0, params |-> NoParams]

\* resolve: entries are tried in registration order from entry i on; the
\* first structural match wins.
RECURSIVE ResolveFrom(_, _, _, _)
ResolveFrom(map, i, method, path) ==
    IF i > Len(map)
    THEN NotFound
    ELSE LET m == Match(map[i].route, method, path) IN
         IF m.matched
         THEN [index |-> i, params |-> m.params]
         ELSE ResolveFrom(map, i + 1, method, path)

resolve(map, method, path) == ResolveFrom(map, 1, method, path)


-----------------------------------------------------------------------------
(* Startup: main() of src/main.rs, one step per statement *)

Let(name, fallible) ==
    [op |-> "let", name |-> name, fallible |-> fallible,
     route |-> Route("", <<>>), responder |-> Responder("", "", "none", "")]
AddRoute(route, responder) ==
    [op |-> "add_route", name |-> "route_map", fallible |-> FALSE,
     route |-> route, responder |-> responder]
Start ==
    [op |-> "start", name |-> "start", fallible |-> FALSE,
     route |-> Route("", <<>>), responder |-> Responder("", "", "none", "")]

Startup == <<
    Let("dotenv", TRUE),
    Let("smtp_address", TRUE),
    Let("smtp_user", TRUE),
    Let("smtp_pass", TRUE),
    Let("email_pool", TRUE),
    Let("auth_db_connect_string", TRUE),
    Let("auth_db_manager", TRUE),
    Let("epoch", TRUE),
    Let("id_factory", TRUE),
    Let("auth_manager", FALSE),
    Let("flash_db_connect_string", TRUE),
    Let("flash_db_manager", TRUE),
    Let("flash_manager", FALSE),
    Let("web_bind_ip", TRUE),
    Let("web_bind_port", TRUE),
    Let("ip", TRUE),
    Let("port", TRUE),
    Let("web_server", TRUE),
    Let("route_map", FALSE),
    AddRoute(options_route, options_responder),
    AddRoute(create_account_route, create_account_responder),
    AddRoute(verify_account_route, verify_account_responder),
    AddRoute(login_route, login_responder),
    AddRoute(logout_route, logout_responder),
    AddRoute(get_decks_route, get_decks_responder),
    AddRoute(get_deck_details_route, get_deck_details_responder),
    AddRoute(create_deck_route, create_deck_responder),
    AddRoute(rename_deck_route, rename_deck_responder),
    AddRoute(delete_deck_route, delete_deck_responder),
    AddRoute(create_card_route, create_card_responder),
    AddRoute(update_card_route, update_card_responder),
    AddRoute(update_card_position_route, update_card_position_responder),
    AddRoute(delete_card_route, delete_card_responder),
    AddRoute(update_score_route, update_score_responder),
    AddRoute(get_deck_scores_route, get_deck_scores_responder),
    Let("file_responder", TRUE),
    AddRoute(file_route, file_responder),
    Let("app_responder", TRUE),
    AddRoute(app_route, app_responder),
    Start >>

Panicked == 0
Returned == Len(Startup) + 1

\* Variant: a failed step is skipped and main() carries on.
AfterFailureContinue(pc) == pc + 1

\* expect(): a failed step panics and main() goes no further.
AfterFailure(pc) == Panicked

\* The values main() has bound once every statement before start succeeded.
AllBuilt == {Startup[i].name : i \in {j \in 1..Len(Startup) : Startup[j].op = "let"}}

RECURSIVE Registered(_)
\* The route table after the first n statements of main().
Registered(n) ==
    IF n = 0 THEN <<>>
    ELSE IF Startup[n].op = "add_route"
         THEN add_route(Registered(n - 1), Startup[n].route, Startup[n].responder)
         ELSE Registered(n - 1)

\* Variant: the fallback route is registered before every other route.
MainTableFallbackFirst ==
    <<[route |-> app_route, responder |-> app_responder]>> \o Registered(Len(Startup))

\* The route table main() hands to start().
MainTable == Registered(Len(Startup))


-----------------------------------------------------------------------------
(* Shared values built by main() *)

\* Variant: the factory is shared without its mutex.
id_factory_unguarded == [lock |-> "None", node_id |-> node_id]

\* Arc::new(std::sync::Mutex::new(WebeIDFactory::new(epoch, node_id)))
id_factory == [lock |-> "Mutex", node_id |-> node_id]

\* Variant: the Auth Manager is shared without its mutex.
auth_manager_unguarded == [lock |-> "None", id_factory |-> id_factory]

\* Arc::new(Mutex::new(WebeAuth { .., id_factory: id_factory.clone() }))
auth_manager == [lock |-> "Mutex", id_factory |-> id_factory]

\* Arc::new(Mutex::new(FlashManager { .., id_factory: id_factory.clone() }))
flash_manager == [lock |-> "Mutex", id_factory |-> id_factory]

Managers == {"auth", "flash"}
ManagerOf(m) == IF m = "auth" THEN auth_manager ELSE flash_manager

\* OptionsResponder::new(allow-origin, allow-methods, allow-headers)
CorsHeaders ==
    <<"http://localhost:1234", "POST, GET, OPTIONS", "content-type, x-webe-token">>

-----------------------------------------------------------------------------
(* Unique-ID generator: spec.md 3 and 5 *)

SeqSpace == MaxSequence + 1

\* A snowflake-style identifier: timestamp, node and sequence packed in
\* that order of significance.
MakeId(ts, node, sequence) == (ts * NodeSpace + node) * SeqSpace + sequence

NoId == -1

\* One ID request on the state (last, sequence) read at clock value ts: a
\* collision with last_timestamp increments the sequence, a later timestamp
\* restarts it; sequence exhaustion and a clock behind last_timestamp fail.
next_id(ts, last, sequence) ==
    IF ts < last THEN [ok |-> FALSE, id |-> NoId, last |-> last, sequence |-> sequence]
    ELSE IF ts = last
    THEN IF sequence + 1 > MaxSequence
         THEN [ok |-> FALSE, id |-> NoId, last |-> last, sequence |-> sequence]
         ELSE [ok |-> TRUE, id |-> MakeId(ts, id_factory.node_id, sequence + 1),
               last |-> ts, sequence |-> sequence + 1]
    ELSE [ok |-> TRUE, id |-> MakeId(ts, id_factory.node_id, 0),
          last |-> ts, sequence |-> 0]

\* The operations that create a record and so draw an identifier.
NeedsId(name) == name \in {"CreateAccount", "Login", "CreateDeck", "CreateCard"}

-----------------------------------------------------------------------------
(* Requests *)

MaxConns == 2
Conns == 1..MaxConns
NoConn == 0

Tokens == {"none", "bad", "good"}
Methods == {"GET", "POST", "OPTIONS", "DELETE"}

Req(method, path, token) ==
    [method |-> method, path |-> path, token |-> token, malformed |-> FALSE]
MalformedReq ==
    [method |-> "", path |-> <<>>, token |-> "none", malformed |-> TRUE]

\* Requests dispatched concurrently: a public operation of the Auth
\* Manager and gated operations of the Flash Manager, with and without a
\* valid token.
Requests ==
    { Req("POST", <<"account", "create">>, "none"),
      Req("POST", <<"deck", "create">>, "good"),
      Req("GET", <<"deck", "42">>, "good"),
      Req("GET", <<"deck", "7">>, "good"),
      Req("GET", <<"deck", "42">>, "bad") }

Segs == {"deck", "scores", "app", "42"}

RECURSIVE SeqsUpTo(_, _)
SeqsUpTo(S, n) ==
    IF n = 0 THEN {<<>>}
    ELSE LET shorter == SeqsUpTo(S, n - 1) IN
         shorter \cup {Append(p, x) : p \in {q \in shorter : Len(q) = n - 1}, x \in S}

\* One concrete path for every template of main.rs.
Instance(uri) == [i \in 1..Len(uri) |-> IF uri[i] \in Bracketed THEN "42" ELSE uri[i]]
TemplatePaths ==
    {Instance(Startup[i].route.uri) : i \in {j \in 1..Len(Startup) : Startup[j].op = "add_route"}}

Paths == TemplatePaths \cup SeqsUpTo(Segs, MaxSegs)

\* Requests served one at a time.
SerialRequests ==
    {Req(m, p, t) : m \in Methods, p \in Paths, t \in Tokens} \cup {MalformedReq}


-----------------------------------------------------------------------------
(* State after construction *)

NoReq == Req("", <<>>, "none")

\* A connection slot with no request in flight.
Idle ==
    [pc |-> "idle", req |-> NoReq, index |-> 0, params |-> NoParams,
     phase |-> "none", want |-> "none", calls |-> 0, valid |-> FALSE,
     seen |-> <<>>, got |-> FALSE, err |-> FALSE, last |-> 0,
     sequence |-> 0, status |-> 0, by |-> "",
     headers |-> <<>>]

Init ==
    /\ main_pc = 1
    /\ built = {}
    /\ route_map = <<>>
    /\ server = "none"
    /\ stop_cause = "none"
    /\ conn = [c \in Conns |-> Idle]
    /\ queue = [m \in Managers |-> <<>>]
    /\ holder = [m \in Managers |-> NoConn]
    /\ id_holder = NoConn
    /\ factory = [last_timestamp |-> 0, sequence |-> 0]
    /\ now = 0
    /\ last_id = NoId
    /\ max_id = NoId

-----------------------------------------------------------------------------
(* main() *)

\* The statement at main_pc succeeds.
MainStep ==
    /\ main_pc \in 1..Len(Startup)
    /\ server # "running"
    /\ LET step == Startup[main_pc] IN
       /\ built' = IF step.op = "let" THEN built \cup {step.name} ELSE built
       /\ route_map' = IF step.op = "add_route"
                       THEN add_route(route_map, step.route, step.responder)
                       ELSE IF step.name = "route_map" THEN <<>> ELSE route_map
       /\ server' = IF step.name = "web_server" THEN "created"
                    ELSE IF step.op = "start" THEN "running" ELSE server
       /\ main_pc' = IF step.op = "start" THEN main_pc ELSE main_pc + 1
    /\ UNCHANGED <<stop_cause, conn, queue, holder, id_holder, factory, now, last_id, max_id>>

\* The statement at main_pc fails and its expect() panics.
MainPanic ==
    /\ main_pc \in 1..Len(Startup)
    /\ Startup[main_pc].fallible
    /\ main_pc' = AfterFailure(main_pc)
    /\ UNCHANGED <<built, route_map, server, stop_cause, conn, queue, holder,
                   id_holder, factory, now, last_id, max_id>>

-----------------------------------------------------------------------------
(* Dispatch server: spec.md 4.5; auth gate: spec.md 4.3 *)

Responded(rec, status, by, headers) ==
    [rec EXCEPT !.pc = "responded", !.status = status, !.by = by,
                !.headers = headers, !.want = "none", !.got = FALSE,
                !.err = FALSE]

\* The parameter a responder constructed with a key reads from the bound
\* parameters of the request it is invoked with.
Lookup(params, key) == IF key \in DOMAIN params THEN params[key] ELSE <<>>

\* The connection after responder rsp was invoked with the request and bound
\* parameters held in rec; a business responder next awaits its manager.
Invoked(rec, rsp, file_found) ==
    LET r == [rec EXCEPT !.calls = @ + 1, !.seen = Lookup(rec.params, rsp.key)] IN
    IF rsp.key # "" /\ rsp.key \notin DOMAIN rec.params
    THEN Responded(r, 500, "server", <<>>)
    ELSE CASE rsp.kind = "options" -> Responded(r, 200, rsp.name, CorsHeaders)
           [] rsp.kind = "file" ->
                Responded(r, IF file_found THEN 200 ELSE 404, rsp.name, <<>>)
           [] rsp.kind = "spa" -> Responded(r, 200, rsp.name, <<>>)
           [] OTHER -> [r EXCEPT !.pc = "wait", !.want = rsp.manager,
                                 !.phase = "inner"]

Enqueue(q, rec, c) ==
    IF rec.pc = "wait" THEN [q EXCEPT ![rec.want] = Append(@, c)] ELSE q

Remove(q, c) == [m \in Managers |-> SelectSeq(q[m], LAMBDA x : x # c)]

\* The connection after its request is parsed, resolved and the resolved
\* responder invoked, up to its first wait on a manager.
Served(rec, file_found) ==
    IF rec.req.malformed
    THEN Responded(rec, 400, "server", <<>>)
    ELSE LET res == resolve(route_map, rec.req.method, rec.req.path) IN
         IF res.index = 0
         THEN Responded(rec, 404, "server", <<>>)
         ELSE LET rsp == route_map[res.index].responder
                  r == [rec EXCEPT !.index = res.index, !.params = res.params]
              IN IF rsp.secure
                 THEN IF r.req.token = "none"
                      THEN Responded(r, 401, "SecureResponder", <<>>)
                      ELSE [r EXCEPT !.pc = "wait", !.want = "auth",
                                     !.phase = "gate"]
                 ELSE Invoked(r, rsp, file_found)

\* A connection is accepted and its request read, parsed, resolved and
\* handled up to the responder's first wait on a manager.
Accept(c, req) ==
    /\ server = "running"
    /\ conn[c].pc = "idle"
    /\ \E file_found \in BOOLEAN :
        LET rec == Served([Idle EXCEPT !.req = req], file_found) IN
        /\ conn' = [conn EXCEPT ![c] = rec]
        /\ queue' = Enqueue(queue, rec, c)
    /\ UNCHANGED <<main_pc, built, route_map, server, stop_cause, holder,
                   id_holder, factory, now, last_id, max_id>>

-----------------------------------------------------------------------------
(* Managers behind their mutexes: spec.md 5 *)

\* tokio's Mutex grants the lock to waiters in the order they asked.
CanLock(m, c) ==
    /\ queue[m] # <<>>
    /\ Head(queue[m]) = c
    /\ ManagerOf(m).lock = "Mutex" => holder[m] = NoConn

\* Variant: a guard that is never dropped.
ReleasedLeak(h, m, c) == h

Released(h, m, c) == IF h[m] = c THEN [h EXCEPT ![m] = NoConn] ELSE h

Acquire(c) ==
    /\ conn[c].pc = "wait"
    /\ CanLock(conn[c].want, c)
    /\ holder' = [holder EXCEPT ![conn[c].want] = c]
    /\ queue' = [queue EXCEPT ![conn[c].want] = Tail(@)]
    /\ conn' = [conn EXCEPT ![c].pc = "using"]
    /\ UNCHANGED <<main_pc, built, route_map, server, stop_cause, id_holder,
                   factory, now, last_id, max_id>>

\* The auth gate validates the token with the Auth Manager, then either
\* delegates to the wrapped responder or answers with the failure.
Validate(c) ==
    /\ conn[c].pc = "using"
    /\ conn[c].phase = "gate"
    /\ holder' = Released(holder, "auth", c)
    /\ \E file_found \in BOOLEAN :
        LET rec == IF conn[c].req.token = "good"
                   THEN Invoked([conn[c] EXCEPT !.valid = TRUE],
                                route_map[conn[c].index].responder, file_found)
                   ELSE Responded(conn[c], 401, "SecureResponder", <<>>)
        IN /\ conn' = [conn EXCEPT ![c] = rec]
           /\ queue' = Enqueue(queue, rec, c)
    /\ UNCHANGED <<main_pc, built, route_map, server, stop_cause, id_holder,
                   factory, now, last_id, max_id>>


\* The operation running inside its manager asks the shared factory for an
\* identifier and blocks on the factory's mutex.
WaitId(c) ==
    /\ conn[c].pc = "using"
    /\ conn[c].phase = "inner"
    /\ NeedsId(route_map[conn[c].index].responder.name)
    /\ ~conn[c].got
    /\ ~conn[c].err
    /\ conn' = [conn EXCEPT ![c].pc = "wait_id"]
    /\ UNCHANGED <<main_pc, built, route_map, server, stop_cause, queue, holder,
                   id_holder, factory, now, last_id, max_id>>

\* The factory's mutex is taken and the factory state read.
LockId(c) ==
    /\ conn[c].pc = "wait_id"
    /\ ManagerOf(conn[c].want).id_factory.lock = "Mutex" => id_holder = NoConn
    /\ id_holder' = c
    /\ conn' = [conn EXCEPT ![c].pc = "in_id",
                            ![c].last = factory.last_timestamp,
                            ![c].sequence = factory.sequence]
    /\ UNCHANGED <<main_pc, built, route_map, server, stop_cause, queue, holder,
                   factory, now, last_id, max_id>>

\* The clock is read, the identifier computed, the factory state written
\* and the mutex released.
NextId(c) ==
    /\ conn[c].pc = "in_id"
    /\ LET r == next_id(now, conn[c].last, conn[c].sequence) IN
       /\ factory' = IF r.ok
                     THEN [last_timestamp |-> r.last, sequence |-> r.sequence]
                     ELSE factory
       /\ last_id' = IF r.ok THEN r.id ELSE last_id
       /\ max_id' = IF r.ok /\ r.id > max_id THEN r.id ELSE max_id
       /\ conn' = [conn EXCEPT ![c].pc = "using", ![c].got = r.ok,
                               ![c].err = ~r.ok, ![c].last = 0,
                               ![c].sequence = 0]
    /\ id_holder' = IF id_holder = c THEN NoConn ELSE id_holder
    /\ UNCHANGED <<main_pc, built, route_map, server, stop_cause, queue, holder,
                   now>>

\* Variant: an internal failure of the operation is not caught and ends the
\* accept loop.
FinishCrash(c, ok) ==
    /\ conn[c].pc = "using"
    /\ conn[c].phase = "inner"
    /\ LET name == route_map[conn[c].index].responder.name IN
       /\ NeedsId(name) => (conn[c].got \/ conn[c].err)
       /\ conn' = [conn EXCEPT ![c] =
                     IF ok /\ ~conn[c].err
                     THEN Responded(conn[c], 200, name, <<>>)
                     ELSE Idle]
       /\ server' = IF ok /\ ~conn[c].err THEN server ELSE "stopped"
       /\ stop_cause' = IF ok /\ ~conn[c].err THEN stop_cause ELSE "panic"
    /\ holder' = Released(holder, conn[c].want, c)
    /\ UNCHANGED <<main_pc, built, route_map, queue, id_holder, factory, now,
                   last_id, max_id>>

\* The operation ends, with its result or with an internal failure that the
\* server turns into a server-error response; the manager is released.
Finish(c, ok) ==
    /\ conn[c].pc = "using"
    /\ conn[c].phase = "inner"
    /\ LET name == route_map[conn[c].index].responder.name IN
       /\ NeedsId(name) => (conn[c].got \/ conn[c].err)
       /\ conn' = [conn EXCEPT ![c] =
                     IF ok /\ ~conn[c].err
                     THEN Responded(conn[c], 200, name, <<>>)
                     ELSE Responded(conn[c], 500, "server", <<>>)]
    /\ holder' = Released(holder, conn[c].want, c)
    /\ UNCHANGED <<main_pc, built, route_map, server, stop_cause, queue,
                   id_holder, factory, now, last_id, max_id>>

\* The peer closes the connection and the request's work is dropped where
\* it is suspended: a waiter leaves the queue, a holder's guard is dropped
\* and the manager released.  The blocking section on the ID factory has no
\* suspension point.
Close(c) ==
    /\ conn[c].pc \in {"wait", "using"}
    /\ conn' = [conn EXCEPT ![c] = Idle]
    /\ queue' = Remove(queue, c)
    /\ holder' = IF conn[c].pc = "using"
                 THEN Released(holder, conn[c].want, c)
                 ELSE holder
    /\ UNCHANGED <<main_pc, built, route_map, server, stop_cause, id_holder,
                   factory, now, last_id, max_id>>

\* The response is written and the connection ends.
Done(c) ==
    /\ conn[c].pc = "responded"
    /\ conn' = [conn EXCEPT ![c] = Idle]
    /\ UNCHANGED <<main_pc, built, route_map, server, stop_cause, queue, holder,
                   id_holder, factory, now, last_id, max_id>>

\* The wall clock moves on, or is set back.
Tick ==
    /\ now < MaxTime
    /\ now' = now + 1
    /\ UNCHANGED <<main_pc, built, route_map, server, stop_cause, conn, queue,
                   holder, id_holder, factory, last_id, max_id>>

Rollback ==
    /\ now > 0
    /\ now' = now - 1
    /\ UNCHANGED <<main_pc, built, route_map, server, stop_cause, conn, queue,
                   holder, id_holder, factory, last_id, max_id>>

\* start() returns and main() with it: the process and its requests end.
Stop(cause) ==
    /\ server = "running"
    /\ server' = "stopped"
    /\ stop_cause' = cause
    /\ main_pc' = Returned
    /\ conn' = [c \in Conns |-> Idle]
    /\ queue' = [m \in Managers |-> <<>>]
    /\ holder' = [m \in Managers |-> NoConn]
    /\ id_holder' = NoConn
    /\ UNCHANGED <<built, route_map, factory, now, last_id, max_id>>

TransportError == Stop("transport")
Shutdown == Stop("shutdown")

-----------------------------------------------------------------------------
(* Specifications *)

Next ==
    \/ MainStep
    \/ MainPanic
    \/ \E c \in Conns, r \in Requests : Accept(c, r)
    \/ \E c \in Conns : Acquire(c)
    \/ \E c \in Conns : Validate(c)
    \/ \E c \in Conns : WaitId(c)
    \/ \E c \in Conns : LockId(c)
    \/ \E c \in Conns : NextId(c)
    \/ \E c \in Conns, ok \in BOOLEAN : Finish(c, ok)
    \/ \E c \in Conns : Close(c)
    \/ \E c \in Conns : Done(c)
    \/ Tick
    \/ Rollback
    \/ TransportError
    \/ Shutdown

Spec == Init /\ [][Next]_vars


\* One connection at a time, over every request of SerialRequests.
SerialNext ==
    \/ MainStep
    \/ MainPanic
    \/ \E r \in SerialRequests : Accept(1, r)
    \/ Acquire(1)
    \/ Validate(1)
    \/ WaitId(1)
    \/ LockId(1)
    \/ NextId(1)
    \/ \E ok \in BOOLEAN : Finish(1, ok)
    \/ Done(1)
    \/ TransportError
    \/ Shutdown

SerialSpec == Init /\ [][SerialNext]_vars

\* Route tables other than the one main() builds: any sequence of add_route
\* calls over registrations of main.rs, made before start.
Candidates ==
    { <<options_route, options_responder>>,
      <<get_decks_route, get_decks_responder>>,
      <<get_deck_details_route, get_deck_details_responder>>,
      <<get_deck_scores_route, get_deck_scores_responder>>,
      <<file_route, file_responder>>,
      <<app_route, app_responder>> }

\* The table of main() before its last registration.
WithoutFallback == SubSeq(MainTable, 1, Len(MainTable) - 1)

TableRequests ==
    {Req(m, p, "none") : m \in {"GET", "POST", "OPTIONS"}, p \in Paths}

TableInit ==
    /\ main_pc = Len(Startup)
    /\ built = AllBuilt
    /\ route_map \in {<<>>, MainTable, WithoutFallback}
    /\ server = "created"
    /\ stop_cause = "none"
    /\ conn = [c \in Conns |-> Idle]
    /\ queue = [m \in Managers |-> <<>>]
    /\ holder = [m \in Managers |-> NoConn]
    /\ id_holder = NoConn
    /\ factory = [last_timestamp |-> 0, sequence |-> 0]
    /\ now = 0
    /\ last_id = NoId
    /\ max_id = NoId

AddRouteAny(route, responder) ==
    /\ server = "created"
    /\ Len(route_map) < MaxTable
    /\ route_map' = add_route(route_map, route, responder)
    /\ UNCHANGED <<main_pc, built, server, stop_cause, conn, queue, holder,
                   id_holder, factory, now, last_id, max_id>>

TableNext ==
    \/ \E reg \in Candidates : AddRouteAny(reg[1], reg[2])
    \/ MainStep
    \/ \E r \in TableRequests : Accept(1, r)
    \/ Close(1)
    \/ Done(1)

TableSpec == TableInit /\ [][TableNext]_vars

\* Scheduling: every request's own steps are taken when they stay possible;
\* a thread blocked on the factory's mutex gets it when it is free often
\* enough.  Arrivals, disconnects, the clock and the end of start() are the
\* environment's.
Fairness ==
    \A c \in Conns :
        /\ WF_vars(Acquire(c))
        /\ WF_vars(Validate(c))
        /\ WF_vars(WaitId(c))
        /\ SF_vars(LockId(c))
        /\ WF_vars(NextId(c))
        /\ WF_vars(\E ok \in BOOLEAN : Finish(c, ok))
        /\ WF_vars(Done(c))

FairSpec == Init /\ [][Next]_vars /\ Fairness


-----------------------------------------------------------------------------
(* Properties *)

InFlight(c) == conn[c].pc # "idle"

\* The entries of map whose pattern structurally matches the request.
Matching(map, method, path) ==
    {i \in 1..Len(map) : Match(map[i].route, method, path).matched}

\* C1: whatever table add_route calls have built, a request resolves to the
\* earliest-registered entry whose pattern matches it (and to not-found when
\* none does), and its response comes from that entry's handler; in main's
\* table GET /deck/<x> resolves to the deck-detail handler, not the fallback.
C1_FirstMatchWins ==
    \A c \in Conns :
        (InFlight(c) /\ ~conn[c].req.malformed) =>
            LET M == Matching(route_map, conn[c].req.method, conn[c].req.path)
                i == conn[c].index
            IN /\ M = {} => (i = 0 /\ conn[c].status = 404)
               /\ M # {} => /\ i \in M
                            /\ \A j \in M : i <= j
                            /\ conn[c].pc = "responded"
                                 => conn[c].by = IF route_map[i].responder.secure
                                                 THEN "SecureResponder"
                                                 ELSE route_map[i].responder.name
               /\ ( /\ route_map = MainTable
                    /\ conn[c].req.method = "GET"
                    /\ Len(conn[c].req.path) = 2
                    /\ conn[c].req.path[1] = "deck" )
                  => ( /\ i # 0
                       /\ route_map[i].route = get_deck_details_route
                       /\ route_map[i].responder.name = "DeckDetails" )

\* In main's table GET /deck/42 has been resolved, with two entries matching.
C1_Witness ==
    /\ route_map = MainTable
    /\ conn[1].pc = "responded"
    /\ conn[1].req = Req("GET", <<"deck", "42">>, "none")
    /\ conn[1].index # 0
    /\ route_map[conn[1].index].responder.name = "DeckDetails"
    /\ Cardinality(Matching(route_map, "GET", <<"deck", "42">>)) = 2

\* The routes main() registers behind the auth gate.
GatedRoutes ==
    { get_decks_route, get_deck_details_route, create_deck_route,
      rename_deck_route, delete_deck_route, create_card_route,
      update_card_route, update_card_position_route, delete_card_route,
      update_score_route, get_deck_scores_route }

\* C2: a request resolved to one of the gated routes whose token is missing
\* or fails validation never has the wrapped handler invoked and is answered
\* with the authorization failure; the wrapped handler is invoked at most
\* once and only after this request's token was validated.
C2_GateBeforeInner ==
    \A c \in Conns :
        ( /\ InFlight(c)
          /\ conn[c].index # 0
          /\ route_map[conn[c].index].route \in GatedRoutes )
        => /\ conn[c].req.token # "good"
                => /\ conn[c].calls = 0
                   /\ conn[c].pc = "responded"
                        => (conn[c].status = 401 /\ conn[c].by = "SecureResponder")
           /\ conn[c].calls > 0 => (conn[c].valid /\ conn[c].req.token = "good")
           /\ conn[c].calls <= 1

\* A gated request whose token failed validation has been refused.
C2_Witness ==
    /\ conn[1].pc = "responded"
    /\ conn[1].req = Req("POST", <<"card", "score">>, "bad")
    /\ conn[1].status = 401
    /\ conn[1].calls = 0
    /\ route_map[conn[1].index].route \in GatedRoutes

\* The requests inside manager m's methods.
Inside(m) ==
    {c \in Conns : conn[c].pc \in {"using", "wait_id", "in_id"} /\ conn[c].want = m}

\* C3: at most one request is inside each manager's methods, it is the
\* holder of that manager's mutex, and every other request that needs the
\* manager is in its queue.
C3_OneRequestPerManager ==
    \A m \in Managers :
        /\ Cardinality(Inside(m)) <= 1
        /\ \A c \in Inside(m) : holder[m] = c
        /\ \A c \in Conns :
            (conn[c].pc = "wait" /\ conn[c].want = m)
                => \E k \in 1..Len(queue[m]) : queue[m][k] = c

\* One request is inside the Auth Manager while another waits for it.
C3_Witness ==
    \E c1, c2 \in Conns :
        /\ c1 # c2
        /\ c1 \in Inside("auth")
        /\ conn[c2].pc = "wait"
        /\ conn[c2].want = "auth"

\* C4: every identifier the shared factory returns, to either manager, is
\* greater than every identifier it returned before.
C4_IdsStrictlyIncrease ==
    [][ \A c \in Conns :
          (conn[c].pc = "in_id" /\ conn'[c].pc = "using" /\ conn'[c].got)
            => (last_id' > max_id /\ max_id' = last_id') ]_vars

\* The factory has returned a second identifier within one millisecond, to
\* a Flash Manager operation, while an Auth Manager operation waits for it.
C4_Witness ==
    /\ last_id = MakeId(1, node_id, 1)
    /\ \E c1, c2 \in Conns :
        /\ conn[c1].got /\ conn[c1].want = "flash"
        /\ conn[c2].pc = "wait_id" /\ conn[c2].want = "auth"

\* C5: start() returns only on a transport error or a shutdown; a step that
\* answers a request, whatever went wrong with it, leaves the server
\* running, and the failure decides the response: 400 for malformed input,
\* 404 for no route, 401 at the auth gate, 500 for an internal failure.
C5_LoopSurvivesRequestFailure ==
    [][ /\ (server = "running" /\ server' # "running")
            => (server' = "stopped" /\ stop_cause' \in {"transport", "shutdown"})
        /\ \A c \in Conns :
            (conn[c].pc # "responded" /\ conn'[c].pc = "responded")
            => LET r == conn'[c] IN
               /\ server' = "running"
               /\ r.status \in {200, 400, 401, 404, 500}
               /\ r.req.malformed <=> r.status = 400
               /\ (~r.req.malformed /\ r.index = 0) <=> (r.status = 404 /\ r.by = "server")
               /\ ( /\ r.index # 0
                    /\ route_map[r.index].responder.secure
                    /\ r.req.token # "good" ) <=> r.status = 401
               /\ conn[c].err => r.status = 500 ]_vars

\* A request failed inside its handler, was answered with a server error
\* and the server is still running.
C5_Witness ==
    /\ server = "running"
    /\ conn[1].pc = "responded"
    /\ conn[1].status = 500
    /\ conn[1].calls = 1


\* C6: every request in flight carries the route and the parameters its own
\* method and path resolve to, the responder it reached read its parameter
\* from the segments of that request's own path, and a successful response
\* comes from that responder.
C6_OwnRouteOwnParameters ==
    \A c \in Conns :
        (InFlight(c) /\ conn[c].index # 0) =>
            LET req == conn[c].req
                entry == route_map[conn[c].index]
                m == Match(entry.route, req.method, req.path)
            IN /\ conn[c].index = resolve(route_map, req.method, req.path).index
               /\ m.matched
               /\ conn[c].params = m.params
               /\ (conn[c].calls > 0 /\ entry.responder.key # "")
                    => /\ entry.responder.key \in DOMAIN conn[c].params
                       /\ conn[c].seen =
                            SubSeq(req.path, Len(entry.route.uri), Len(req.path))
               /\ (conn[c].pc = "responded" /\ conn[c].status = 200)
                    => conn[c].by = entry.responder.name

\* Two requests are in flight at once, each inside its handler with the
\* parameter of its own path.
C6_Witness ==
    \E c1, c2 \in Conns :
        /\ conn[c1].calls > 0 /\ conn[c1].seen = <<"42">>
        /\ conn[c2].calls > 0 /\ conn[c2].seen = <<"7">>
        /\ conn[c1].pc = "using" /\ conn[c1].phase = "inner"
        /\ conn[c2].pc = "wait"

\* C7: in main's table a GET request always resolves, and one that no
\* earlier entry matches resolves to the last entry, the SPA fallback,
\* however many segments its path has; in the same table without the
\* fallback such a request is not found.
C7_FallbackCatchesGet ==
    \A c \in Conns :
        (InFlight(c) /\ ~conn[c].req.malformed /\ conn[c].req.method = "GET") =>
            LET M == Matching(MainTable, "GET", conn[c].req.path)
                last == Len(MainTable)
            IN /\ route_map = MainTable
                    => /\ conn[c].index # 0
                       /\ M \subseteq {last}
                            => /\ conn[c].index = last
                               /\ route_map[last].responder.name = "SPA"
                               /\ conn[c].pc = "responded"
                               /\ conn[c].status = 200
                               /\ conn[c].by = "SPA"
               /\ (route_map = WithoutFallback /\ M \subseteq {last})
                    => /\ conn[c].index = 0
                       /\ conn[c].pc = "responded"
                       /\ conn[c].status = 404

\* In main's table a GET for a path of three segments that no other entry
\* matches was answered by the SPA fallback.
C7_Witness ==
    /\ route_map = MainTable
    /\ conn[1].pc = "responded"
    /\ conn[1].req.method = "GET"
    /\ conn[1].req.path = <<"scores", "42", "app">>
    /\ conn[1].by = "SPA"

\* C8: every OPTIONS request, whatever its path, resolves to the first
\* entry, the preflight responder, and is answered at once with the one
\* response that carries the three configured values.
C8_PreflightUniform ==
    \A c \in Conns :
        (InFlight(c) /\ ~conn[c].req.malformed /\ conn[c].req.method = "OPTIONS")
        => /\ conn[c].index = 1
           /\ route_map[1].responder.kind = "options"
           /\ conn[c].pc = "responded"
           /\ conn[c].status = 200
           /\ conn[c].by = "Options"
           /\ conn[c].headers = <<"http://localhost:1234", "POST, GET, OPTIONS",
                                  "content-type, x-webe-token">>

\* A preflight for a path of two segments was answered.
C8_Witness ==
    /\ conn[1].pc = "responded"
    /\ conn[1].req.method = "OPTIONS"
    /\ conn[1].req.path = <<"deck", "scores">>
    /\ conn[1].headers = CorsHeaders

\* C9: the server runs, and a request is in flight, only when every
\* statement of main() before start succeeded and the whole table is
\* registered; after a failed statement nothing is ever served.
C9_NoServiceBeforeStartup ==
    /\ (server = "running" \/ \E c \in Conns : InFlight(c))
        => /\ built = AllBuilt
           /\ route_map = MainTable
           /\ main_pc = Len(Startup)
    /\ main_pc = Panicked
        => /\ server \in {"none", "created"}
           /\ \A c \in Conns : ~InFlight(c)

\* main() panicked after the socket was bound and part of the table built.
C9_Witness ==
    /\ main_pc = Panicked
    /\ server = "created"
    /\ Len(route_map) = 17
    /\ "app_responder" \notin built

\* A request waits for a lock that another connection holds.
BlockedByOther(c) ==
    \/ conn[c].pc = "wait" /\ holder[conn[c].want] \notin {NoConn, c}
    \/ conn[c].pc = "wait_id" /\ id_holder \notin {NoConn, c}

Unanswered == {c \in Conns : conn[c].pc \notin {"idle", "responded"}}

NoDeadlock == Unanswered # {} => \E c \in Unanswered : ~BlockedByOther(c)

=============================================================================
